---- MODULE Spec2Model ----
(***************************************************************************)
(* Weather application: user management, login / register windows, the    *)
(* main event loop and the per-screen chat, modelled from src/source.      *)
(*                                                                         *)
(* Python values are represented as follows.                               *)
(*   - None in a str-typed attribute is the string None below;            *)
(*   - a view result (None, a str, or a (username, password) tuple) is a  *)
(*     sequence: <<>> for None, <<s>> for the str s, <<u, p>> for a tuple; *)
(*   - current_window_index (None or 0..2) is <<>> or <<i>>;              *)
(*   - a chat message is a sequence of characters, so that str.strip()    *)
(*     is computed and not assumed.                                        *)
(***************************************************************************)
EXTENDS Integers, Sequences, FiniteSets, TLC

VARIABLES
    db,                    \* the remote record store: table name -> rows
    um,                    \* the class attributes of UserManager
    clock,                 \* time.time() / datetime.now().timestamp()
    pc,                    \* where WeatherApp.run is waiting
    app_current_user,      \* WeatherApp.current_user
    login_view,            \* LoginView: result, controls, window
    register_view,         \* RegisterView: result, controls, window
    top_interface,         \* WeatherApp.top_interface
    windows,               \* WeatherApp.windows
    current_window_index,  \* WeatherApp.current_window_index
    chatbox,               \* the chat Multiline of each DES window
    json_data,             \* WeatherApp.json_data
    chart,                 \* what the canvas-chart of each DES window shows
    events,                \* clicks waiting to be returned by read_all_windows
    handling,              \* the event run() has read and not yet finished with
    last                   \* the last call or event handled and what it answered

vars == <<db, um, clock, pc, app_current_user, login_view, register_view,
          top_interface, windows, current_window_index, chatbox, json_data,
          chart, events, handling, last>>

\* the charts and the data shown on them
desVars == <<json_data, chart>>

\* the event queue of the GUI toolkit and run()'s place in handling an event
loopVars == <<events, handling>>

appVars == <<pc, app_current_user, login_view, register_view, top_interface,
             windows, current_window_index, chatbox, desVars, loopVars>>

----------------------------------------------------------------------------
(* Bounds and input sets *)

MaxChat == 2       \* chat messages sent in one run
MaxControls == 2   \* copies of a view's controller list that are told apart
MaxClicks == 3     \* clicks on the main windows in one run of the event loop

None == "None"
Users == {"", "amy"}
Passwords == {"pw1", "pw2"}
Screens == {"DES1", "DES2", "DES3"}
Replies == {"ok", "error"}   \* how the record store answers a STORE
\* what the user may have typed in the Message box: empty, blank, and text
\* with and without blanks around it
Messages == {<<>>, <<" ">>, <<" ", " ">>, <<"h">>, <<" ", "h">>, <<"h", " ">>, <<"h", "h">>}

----------------------------------------------------------------------------
(* The remote record store, as the jsnDrop client shows it to its callers. *)

\* Python's  "DATA_ERROR" in text
ContainsDATA_ERROR(text) == text \in {"DATA_ERROR.SELECT", "DATA_ERROR.ALL"}

\* Python's  "ERROR" in text
ContainsERROR(text) == text \in {"ERROR.STORE", "DATA_ERROR.SELECT", "DATA_ERROR.ALL"}

\* a row matches a WHERE clause  f1 = 'v1' AND f2 = 'v2'
Matches(row, where) == \A f \in DOMAIN where : row[f] = where[f]

\* SELECT: the matching rows, or a DATA_ERROR status when there are none
jsnSelect(rows, where) ==
    LET found == {r \in rows : Matches(r, where)}
    IN  IF found = {}
        THEN [JsnMsg |-> "DATA_ERROR.SELECT", Msg |-> {}]
        ELSE [JsnMsg |-> "SUCCESS.SELECT", Msg |-> found]

\* STORE into tblUser, whose primary key is PersonID: insert or replace
jsnStoreUser(rows, value, reply) ==
    IF reply = "ok"
    THEN [rows |-> {r \in rows : r.PersonID # value.PersonID} \cup {value},
          JsnMsg |-> "SUCCESS.STORE", Msg |-> "STORE tblUser executed"]
    ELSE [rows |-> rows, JsnMsg |-> "ERROR.STORE", Msg |-> "ERROR.STORE"]

\* STORE into a table without a primary key: append
jsnStoreRow(rows, value, reply) ==
    IF reply = "ok"
    THEN [rows |-> Append(rows, value),
          JsnMsg |-> "SUCCESS.STORE", Msg |-> "STORE executed"]
    ELSE [rows |-> rows, JsnMsg |-> "ERROR.STORE", Msg |-> "ERROR.STORE"]

\* ALL: every row of the table, or a DATA_ERROR status when it is empty
jsnAll(rows) ==
    IF rows = <<>>
    THEN [JsnMsg |-> "DATA_ERROR.ALL", Msg |-> <<>>]
    ELSE [JsnMsg |-> "SUCCESS.ALL", Msg |-> rows]

\* a STORE request as issued, with the status the store answered
StoreCall(table, value, st) == [STORE |-> table, VALUE |-> value, JsnMsg |-> st.JsnMsg]

----------------------------------------------------------------------------
(* UserManager (src/source/User/user_management.py).  Each method is an    *)
(* operator from the state it reads to the state it leaves, its return     *)
(* value and the STORE calls it issued.                                    *)

UserRecord(user_id, password, status) ==
    [PersonID |-> user_id, Password |-> password, Status |-> status]

\* register without the check that the username is free
register_NoCheck(db0, user_id, password, reply) ==
    LET rec == UserRecord(user_id, password, "Registered")
        st  == jsnStoreUser(db0.tblUser, rec, reply)
    IN  [db |-> [db0 EXCEPT !.tblUser = st.rows],
         ret |-> "Registration Success",
         calls |-> <<StoreCall("tblUser", rec, st)>>]

register(db0, user_id, password, reply) ==
    LET api == jsnSelect(db0.tblUser, [PersonID |-> user_id])
        rec == UserRecord(user_id, password, "Registered")
        st  == jsnStoreUser(db0.tblUser, rec, reply)
    IN  IF ContainsDATA_ERROR(api.JsnMsg)
        THEN [db |-> [db0 EXCEPT !.tblUser = st.rows],
              ret |-> "Registration Success",
              calls |-> <<StoreCall("tblUser", rec, st)>>]
        ELSE [db |-> db0, ret |-> "User Already Exists", calls |-> <<>>]

\* a login query that forgets the password
LoginWhere_NoPassword(user_id, password) == [PersonID |-> user_id]

LoginWhere(user_id, password) == [PersonID |-> user_id, Password |-> password]

login(db0, um0, user_id, password, reply) ==
    LET api == jsnSelect(db0.tblUser, LoginWhere(user_id, password))
        rec == UserRecord(user_id, password, "Logged In")
        st  == jsnStoreUser(db0.tblUser, rec, reply)
    IN  IF ContainsDATA_ERROR(api.JsnMsg)
        THEN [db |-> db0,
              um |-> [um0 EXCEPT !.current_status = "Logged Out",
                                 !.current_user = None],
              ret |-> "Login Failed", calls |-> <<>>]
        ELSE [db |-> [db0 EXCEPT !.tblUser = st.rows],
              um |-> [um0 EXCEPT !.current_status = "Logged In",
                                 !.current_user = user_id,
                                 !.current_pass = password],
              ret |-> "Login Success",
              calls |-> <<StoreCall("tblUser", rec, st)>>]

\* logout that does not look at the store's answer
logout_IgnoresError(db0, um0, reply) ==
    LET rec == UserRecord(um0.current_user, um0.current_pass, "Logged Out")
        st  == jsnStoreUser(db0.tblUser, rec, reply)
    IN  IF um0.current_status = "Logged In"
        THEN [db |-> [db0 EXCEPT !.tblUser = st.rows],
              um |-> [um0 EXCEPT !.current_status = "Logged Out"],
              ret |-> "Logged Out",
              calls |-> <<StoreCall("tblUser", rec, st)>>]
        ELSE [db |-> db0, um |-> um0,
              ret |-> "Must be 'Logged In' to 'LogOut'", calls |-> <<>>]

logout(db0, um0, reply) ==
    LET rec == UserRecord(um0.current_user, um0.current_pass, "Logged Out")
        st  == jsnStoreUser(db0.tblUser, rec, reply)
    IN  IF um0.current_status = "Logged In"
        THEN IF ~ContainsERROR(st.Msg)
             THEN [db |-> [db0 EXCEPT !.tblUser = st.rows],
                   um |-> [um0 EXCEPT !.current_status = "Logged Out"],
                   ret |-> "Logged Out",
                   calls |-> <<StoreCall("tblUser", rec, st)>>]
             ELSE [db |-> [db0 EXCEPT !.tblUser = st.rows],
                   um |-> um0,
                   ret |-> st.JsnMsg,
                   calls |-> <<StoreCall("tblUser", rec, st)>>]
        ELSE [db |-> db0, um |-> um0,
              ret |-> "Must be 'Logged In' to 'LogOut'", calls |-> <<>>]

set_current_DES(um0, DESScreen) ==
    IF um0.current_status = "Logged In"
    THEN [um |-> [um0 EXCEPT !.current_screen = DESScreen], ret |-> "Set Screen"]
    ELSE [um |-> um0, ret |-> "Log in"]

ChatRecord(user_id, des_screen, message, time) ==
    [PersonID |-> user_id, DESNumber |-> des_screen, Chat |-> message, Time |-> time]

\* chat without the check that a current screen is set
chat_NoScreenCheck(db0, um0, now, message, reply) ==
    LET rec == ChatRecord(um0.current_user, um0.current_screen, message, now)
        st  == jsnStoreRow(db0.tblChatV2, rec, reply)
    IN  IF um0.current_status # "Logged In"
        THEN [db |-> db0, ret |-> "You must be logged in to chat", calls |-> <<>>]
        ELSE [db |-> [db0 EXCEPT !.tblChatV2 = st.rows],
              ret |-> IF ContainsERROR(st.Msg) THEN st.JsnMsg ELSE "Chat sent",
              calls |-> <<StoreCall("tblChatV2", rec, st)>>]

chat(db0, um0, now, message, reply) ==
    LET rec == ChatRecord(um0.current_user, um0.current_screen, message, now)
        st  == jsnStoreRow(db0.tblChatV2, rec, reply)
    IN  IF um0.current_status # "Logged In"
        THEN [db |-> db0, ret |-> "You must be logged in to chat", calls |-> <<>>]
        ELSE IF um0.current_screen = None
        THEN [db |-> db0,
              ret |-> "Chat not sent. A current screen must be set before sending chat - just testing",
              calls |-> <<>>]
        ELSE [db |-> [db0 EXCEPT !.tblChatV2 = st.rows],
              ret |-> IF ContainsERROR(st.Msg) THEN st.JsnMsg ELSE "Chat sent",
              calls |-> <<StoreCall("tblChatV2", rec, st)>>]

----------------------------------------------------------------------------
(* Initial state: WeatherApp() has been constructed and run() shows the    *)
(* login window for the first time.                                        *)

\* the controllers a set_up_layout call appends; lists longer than
\* MaxControls copies behave as MaxControls copies do
LoginControls == <<"login_button", "register_window_button", "exit_button">>
RegisterControls == <<"register_button", "exit_button">>

AppendControls(controls, added) ==
    IF Len(controls) < MaxControls * Len(added) THEN controls \o added ELSE controls

NoCall ==
    [op |-> "none", args |-> <<>>, ret |-> <<>>, calls |-> <<>>, reads |-> <<>>,
     popups |-> <<>>]

Init ==
    /\ db = [tblUser |-> {}, tblChatV2 |-> <<>>,
             tblChat_DES1 |-> <<>>, tblChat_DES2 |-> <<>>, tblChat_DES3 |-> <<>>,
             openweather |-> <<>>, mergedcurrentdata |-> <<>>,
             weatherData |-> <<>>, mergedWeatherData |-> <<>>]
    /\ um = [current_user |-> None, current_pass |-> None,
             current_status |-> None, current_screen |-> None]
    /\ clock = 0
    /\ pc = "login_window"
    /\ app_current_user = None
    /\ login_view = [result |-> <<>>, controls |-> LoginControls, window |-> "open"]
    /\ register_view = [result |-> <<>>, controls |-> <<>>, window |-> "none"]
    /\ top_interface = "none"
    /\ windows = <<>>
    /\ current_window_index = <<>>
    /\ chatbox = [i \in 1..3 |-> <<>>]
    /\ json_data = <<>>
    /\ chart = [i \in 1..3 |-> <<>>]
    /\ events = <<>>
    /\ handling = <<>>
    /\ last = NoCall

----------------------------------------------------------------------------
(* Direct calls of the UserManager methods, in any order.                  *)

Called(op, args, ret, calls) ==
    [op |-> op, args |-> args, ret |-> <<ret>>, calls |-> calls, reads |-> <<>>,
     popups |-> <<>>]

UM_register(user_id, password, reply) ==
    LET r == register(db, user_id, password, reply)
    IN  /\ db' = r.db
        /\ last' = Called("register", <<user_id, password>>, r.ret, r.calls)
        /\ UNCHANGED <<um, clock, appVars>>

UM_login(user_id, password, reply) ==
    LET r == login(db, um, user_id, password, reply)
    IN  /\ db' = r.db
        /\ um' = r.um
        /\ last' = Called("login", <<user_id, password>>, r.ret, r.calls)
        /\ UNCHANGED <<clock, appVars>>

UM_logout(reply) ==
    LET r == logout(db, um, reply)
    IN  /\ db' = r.db
        /\ um' = r.um
        /\ last' = Called("logout", <<>>, r.ret, r.calls)
        /\ UNCHANGED <<clock, appVars>>

UM_set_current_DES(DESScreen) ==
    LET r == set_current_DES(um, DESScreen)
    IN  /\ um' = r.um
        /\ last' = Called("set_current_DES", <<DESScreen>>, r.ret, <<>>)
        /\ UNCHANGED <<db, clock, appVars>>

UM_chat(message, reply) ==
    LET r == chat(db, um, clock, message, reply)
    IN  /\ clock < MaxChat
        /\ db' = r.db
        /\ clock' = IF r.calls = <<>> THEN clock ELSE clock + 1
        /\ last' = Called("chat", <<message>>, r.ret, r.calls)
        /\ UNCHANGED <<um, appVars>>

NextUM ==
    \/ \E u \in Users, p \in Passwords, reply \in Replies : UM_register(u, p, reply)
    \/ \E u \in Users, p \in Passwords, reply \in Replies : UM_login(u, p, reply)
    \/ \E reply \in Replies : UM_logout(reply)
    \/ \E s \in Screens : UM_set_current_DES(s)

SpecUM == Init /\ [][NextUM]_vars

NextChat ==
    \/ \E reply \in Replies : UM_register("amy", "pw1", reply)
    \/ \E p \in Passwords : UM_login("amy", p, "ok")
    \/ UM_logout("ok")
    \/ \E s \in Screens : UM_set_current_DES(s)
    \/ \E m \in {<<"h">>, <<>>}, reply \in Replies : UM_chat(m, reply)

SpecChat == Init /\ [][NextChat]_vars

----------------------------------------------------------------------------
(* Controllers of the login and register windows.  A controller reads the  *)
(* event and the running state s = [db, um, view, keep_going, popups,      *)
(* calls] and leaves it with its return value in keep_going.               *)

Event(name, user, password) == [name |-> name, User |-> user, Password |-> password]

\* a login controller that forgets to set the starting screen
login_button_accept_NoScreen(event, s, reply) ==
    IF event.name = "Login"
    THEN LET r == login(s.db, s.um, event.User, event.Password, reply)
         IN  IF r.ret = "Login Success"
             THEN [s EXCEPT !.db = r.db,
                            !.um = r.um,
                            !.view.result = <<event.User, event.Password>>,
                            !.calls = s.calls \o r.calls,
                            !.keep_going = FALSE]
             ELSE [s EXCEPT !.db = r.db,
                            !.um = r.um,
                            !.popups = Append(s.popups, r.ret),
                            !.calls = s.calls \o r.calls,
                            !.keep_going = TRUE]
    ELSE [s EXCEPT !.keep_going = TRUE]

\* controller.User.login_button.accept
login_button_accept(event, s, reply) ==
    IF event.name = "Login"
    THEN LET r == login(s.db, s.um, event.User, event.Password, reply)
         IN  IF r.ret = "Login Success"
             THEN [s EXCEPT !.db = r.db,
                            !.um = [r.um EXCEPT !.current_screen = "DES1"],
                            !.view.result = <<event.User, event.Password>>,
                            !.calls = s.calls \o r.calls,
                            !.keep_going = FALSE]
             ELSE [s EXCEPT !.db = r.db,
                            !.um = r.um,
                            !.popups = Append(s.popups, r.ret),
                            !.calls = s.calls \o r.calls,
                            !.keep_going = TRUE]
    ELSE [s EXCEPT !.keep_going = TRUE]

\* a Register button that closes the login window without a result
register_window_button_accept_NoResult(event, s) ==
    IF event.name = "Register"
    THEN [s EXCEPT !.keep_going = FALSE]
    ELSE [s EXCEPT !.keep_going = TRUE]

\* controller.User.register_window_button.accept
register_window_button_accept(event, s) ==
    IF event.name = "Register"
    THEN [s EXCEPT !.view.result = <<"Register">>, !.keep_going = FALSE]
    ELSE [s EXCEPT !.keep_going = TRUE]

\* controller.DES.exit_button.accept (WIN_CLOSED is the event None)
exit_button_accept(event, s) ==
    IF event.name \in {"Exit", "WIN_CLOSED"}
    THEN [s EXCEPT !.view.result = <<"Exit">>, !.keep_going = FALSE]
    ELSE [s EXCEPT !.keep_going = TRUE]

\* controller.User.register_button.accept
register_button_accept(event, s, reply) ==
    IF event.name = "Register"
    THEN LET r == register(s.db, event.User, event.Password, reply)
         IN  IF r.ret = "Registration Success"
             THEN [s EXCEPT !.db = r.db,
                            !.view.result = <<event.User, event.Password>>,
                            !.calls = s.calls \o r.calls,
                            !.keep_going = FALSE]
             ELSE [s EXCEPT !.db = r.db,
                            !.popups = Append(s.popups, r.ret),
                            !.calls = s.calls \o r.calls,
                            !.keep_going = TRUE]
    ELSE [s EXCEPT !.keep_going = TRUE]

UsesStore(control) == control \in {"login_button", "register_button"}

accept_control(control, event, s, reply) ==
    CASE control = "login_button" -> login_button_accept(event, s, reply)
      [] control = "register_window_button" -> register_window_button_accept(event, s)
      [] control = "exit_button" -> exit_button_accept(event, s)
      [] control = "register_button" -> register_button_accept(event, s, reply)

\* the store's answers to the STORE calls of one event, one per controller
\* copy that may issue one
ReplySeqs == [1..MaxControls -> Replies]

NextReplies(control, replies) ==
    IF UsesStore(control) /\ replies # <<>> THEN Tail(replies) ELSE replies

ReplyFor(replies) == IF replies = <<>> THEN "ok" ELSE Head(replies)

\* LoginView.accept_input, the for loop over the controls: it stops at the
\* first controller that returns False
RECURSIVE LoginViewControls(_, _, _, _)
LoginViewControls(controls, event, s, replies) ==
    IF controls = <<>>
    THEN s
    ELSE LET s1 == accept_control(Head(controls), event, s, ReplyFor(replies))
         IN  IF ~s1.keep_going
             THEN s1
             ELSE LoginViewControls(Tail(controls), event, s1,
                                    NextReplies(Head(controls), replies))

\* LoginView.accept_input, one pass of the while loop on one event
LoginView_accept_input(event, s, replies) ==
    IF event.name \in {"WIN_CLOSED", "Exit"}
    THEN [s EXCEPT !.view.result = <<>>, !.keep_going = FALSE]
    ELSE LoginViewControls(s.view.controls, event, s, replies)

\* RegisterView.accept_input, the for loop over the controls: every
\* controller runs and keep_going is what the last one returned
RECURSIVE RegisterViewControls(_, _, _, _)
RegisterViewControls(controls, event, s, replies) ==
    IF controls = <<>>
    THEN s
    ELSE RegisterViewControls(Tail(controls), event,
                              accept_control(Head(controls), event, s, ReplyFor(replies)),
                              NextReplies(Head(controls), replies))

RegisterView_accept_input(event, s, replies) ==
    RegisterViewControls(s.view.controls, event, s, replies)

Running(view) ==
    [db |-> db, um |-> um, view |-> view, keep_going |-> TRUE,
     popups |-> <<>>, calls |-> <<>>]

Handled(op, args, ret, calls, reads, popups) ==
    [op |-> op, args |-> args, ret |-> ret, calls |-> calls, reads |-> reads,
     popups |-> popups]

isTuple(result) == Len(result) = 2

----------------------------------------------------------------------------
(* The login window (WeatherApp.handle_login, LoginView.accept_input)      *)

\* an event of the open login window, handled by LoginView.accept_input
LoginWindowEvent(event, replies) ==
    /\ pc = "login_window"
    /\ LET s == LoginView_accept_input(event, Running(login_view), replies)
       IN  /\ db' = s.db
           /\ um' = s.um
           /\ login_view' = [s.view EXCEPT !.window =
                                IF s.keep_going THEN "open" ELSE "closed"]
           /\ pc' = IF s.keep_going THEN "login_window" ELSE "login_result"
           /\ last' = Handled(event.name, <<event.User, event.Password>>,
                              IF s.keep_going THEN <<>> ELSE <<"return">> \o s.view.result,
                              s.calls, <<>>, s.popups)
    /\ UNCHANGED <<clock, app_current_user, register_view, top_interface,
                   windows, current_window_index, chatbox, desVars, loopVars>>

LoginClick ==
    \E u \in Users, p \in Passwords, replies \in ReplySeqs :
        LoginWindowEvent(Event("Login", u, p), replies)

RegisterWindowClick == LoginWindowEvent(Event("Register", "", ""), <<>>)

LoginExit ==
    \E name \in {"Exit", "WIN_CLOSED"} : LoginWindowEvent(Event(name, "", ""), <<>>)

\* handle_login after accept_input returned: lines 113-126 of main.py, then
\* either the next pass of its loop or the return to run()
HandleLoginResult ==
    /\ pc = "login_result"
    /\ LET result == login_view.result
       IN  IF result = <<>> \/ result = <<"Exit">>
           THEN /\ pc' = "done"
                /\ app_current_user' = None
                /\ last' = Handled("handle_login", <<>>, <<None>>, <<>>, <<>>, <<>>)
                /\ UNCHANGED <<db, um, login_view, register_view>>
           ELSE IF result = <<"Register">>
           THEN /\ pc' = "register_window"
                /\ register_view' =
                       [register_view EXCEPT
                           !.controls = AppendControls(@, RegisterControls),
                           !.window = "open"]
                /\ last' = Handled("handle_register", <<>>, <<>>, <<>>, <<>>, <<>>)
                /\ UNCHANGED <<db, um, login_view, app_current_user>>
           ELSE \E reply \in Replies :
                LET r == login(db, um, result[1], result[2], reply)
                IN  /\ db' = r.db
                    /\ um' = r.um
                    /\ IF r.ret = "Login Success"
                       THEN /\ app_current_user' = result[1]
                            /\ pc' = IF result[1] = "" THEN "done" ELSE "create_windows"
                            /\ last' = Handled("handle_login", result, <<result[1]>>,
                                               r.calls, <<>>, <<>>)
                            /\ UNCHANGED login_view
                       ELSE /\ pc' = "login_window"
                            /\ login_view' =
                                   [login_view EXCEPT
                                       !.controls = AppendControls(@, LoginControls),
                                       !.window = "open"]
                            /\ last' = Handled("handle_login", result, <<>>,
                                               r.calls, <<>>, <<r.ret>>)
                            /\ UNCHANGED app_current_user
                    /\ UNCHANGED register_view
    /\ UNCHANGED <<clock, top_interface, windows, current_window_index, chatbox,
                   desVars, loopVars>>

----------------------------------------------------------------------------
(* The register window (WeatherApp.handle_register, RegisterView)          *)

RegisterWindowEvent(event, replies) ==
    /\ pc = "register_window"
    /\ LET s == RegisterView_accept_input(event, Running(register_view), replies)
       IN  /\ db' = s.db
           /\ register_view' = [s.view EXCEPT !.window =
                                   IF s.keep_going THEN "open" ELSE "closed"]
           /\ pc' = IF s.keep_going THEN "register_window" ELSE "register_result"
           /\ last' = Handled(event.name, <<event.User, event.Password>>,
                              IF s.keep_going THEN <<>> ELSE <<"return">> \o s.view.result,
                              s.calls, <<>>, s.popups)
    /\ UNCHANGED <<um, clock, app_current_user, login_view, top_interface,
                   windows, current_window_index, chatbox, desVars, loopVars>>

RegisterClick ==
    \E u \in Users, p \in Passwords, replies \in ReplySeqs :
        RegisterWindowEvent(Event("Register", u, p), replies)

RegisterExit ==
    \E name \in {"Exit", "WIN_CLOSED"} : RegisterWindowEvent(Event(name, "", ""), <<>>)

\* handle_register after accept_input returned (lines 140-144 of main.py),
\* then the next pass of handle_login's loop: the login window again
HandleRegisterResult ==
    /\ pc = "register_result"
    /\ \E reply \in Replies :
       LET result == register_view.result
           r == IF isTuple(result)
                THEN register(db, result[1], result[2], reply)
                ELSE [db |-> db, ret |-> None, calls |-> <<>>]
       IN  /\ db' = r.db
           /\ last' = Handled("handle_register", result, <<>>, r.calls, <<>>,
                              IF isTuple(result) THEN <<r.ret>> ELSE <<>>)
    /\ login_view' = [login_view EXCEPT
                         !.controls = AppendControls(@, LoginControls),
                         !.window = "open"]
    /\ pc' = "login_window"
    /\ UNCHANGED <<um, clock, app_current_user, register_view, top_interface,
                   windows, current_window_index, chatbox, desVars, loopVars>>

----------------------------------------------------------------------------
(* The chat controller (src/source/controller/User/chat_button.py)         *)

\* str.strip() on a sequence of characters
RECURSIVE lstrip(_)
lstrip(m) == IF m # <<>> /\ Head(m) = " " THEN lstrip(Tail(m)) ELSE m

RECURSIVE rstrip(_)
rstrip(m) ==
    IF m # <<>> /\ m[Len(m)] = " " THEN rstrip(SubSeq(m, 1, Len(m) - 1)) ELSE m

strip(m) == rstrip(lstrip(m))

\* one chat table for every screen
table_name_Shared(screen) == "tblChat_DES1"

\* ChatJSNDropService.__init__ and the if / elif / else of accept
table_name(screen) ==
    IF screen = "DES1" THEN "tblChat_DES1"
    ELSE IF screen = "DES2" THEN "tblChat_DES2"
    ELSE "tblChat_DES3"

output_key(screen) ==
    IF screen = "DES1" THEN "-CHATBOX-CURRENT-CONDITION-"
    ELSE IF screen = "DES2" THEN "-CHATBOX-HISTORICAL-DATA-"
    ELSE "-CHATBOX-YEARLY-COMPARISON-"

\* the key of the chat Multiline in the layout of window i (0, 1, 2)
ChatboxKey(i) ==
    CASE i = 0 -> "-CHATBOX-CURRENT-CONDITION-"
      [] i = 1 -> "-CHATBOX-HISTORICAL-DATA-"
      [] i = 2 -> "-CHATBOX-YEARLY-COMPARISON-"

MessageRow(person_id, message, time) ==
    [PersonID |-> person_id, Message |-> message, Time |-> time]

\* sorted(messages, key=Time): a stable insertion sort
RECURSIVE InsertByTime(_, _)
InsertByTime(sorted, row) ==
    IF sorted = <<>> THEN <<row>>
    ELSE IF sorted[Len(sorted)].Time <= row.Time THEN Append(sorted, row)
    ELSE Append(InsertByTime(SubSeq(sorted, 1, Len(sorted) - 1), row),
                sorted[Len(sorted)])

RECURSIVE SortedByTime(_)
SortedByTime(rows) ==
    IF rows = <<>> THEN <<>>
    ELSE InsertByTime(SortedByTime(SubSeq(rows, 1, Len(rows) - 1)), rows[Len(rows)])

\* one line of chat_text: "[time] PersonID: Message"
chat_text(rows) ==
    [k \in 1..Len(rows) |-> <<rows[k].Time, rows[k].PersonID, rows[k].Message>>]

\* accept(event = "Send") on the window with index view; it answers the
\* tables, what the chat boxes show and the calls it issued
chat_button_accept(db0, um0, boxes, view, now, typed, reply) ==
    LET message == strip(typed)
        screen  == um0.current_screen
        table   == table_name(screen)
        row     == MessageRow(um0.current_user, message, now)
        st      == jsnStoreRow(db0[table], row, reply)
        db1     == [db0 EXCEPT ![table] = st.rows]
        resp    == jsnAll(db1[table])
    IN  IF message = <<>>
        THEN [db |-> db0, boxes |-> boxes, calls |-> <<>>, reads |-> <<>>]
        ELSE [db |-> db1,
              boxes |-> IF resp.JsnMsg = "SUCCESS.ALL" /\ output_key(screen) = ChatboxKey(view)
                        THEN [boxes EXCEPT ![view + 1] = chat_text(SortedByTime(resp.Msg))]
                        ELSE boxes,
              calls |-> <<StoreCall(table, row, st)>>,
              reads |-> <<table>>]

\* the body of accept's try, with requests that may raise or be refused;
\* ret is keep_going
chat_button_body(db0, um0, boxes, view, now, typed, o) ==
    LET message == strip(typed)
        table == table_name(um0.current_screen)
        c1 == <<[verb |-> "CREATE", target |-> table, outcome |-> o.CREATE]>>
        c2 == c1 \o <<[verb |-> "STORE", target |-> table, outcome |-> o.STORE]>>
        c3 == c2 \o <<[verb |-> "ALL", target |-> table, outcome |-> o.ALL]>>
        r == chat_button_accept(db0, um0, boxes, view, now, typed,
                                IF o.STORE = "ok" THEN "ok" ELSE "error")
        same == [boxes |-> boxes]
    IN  IF message = <<>>
        THEN [ret |-> <<"True">>, exc |-> FALSE, db |-> db0, calls |-> <<>>] @@ same
        ELSE IF o.CREATE = "raise"
        THEN [ret |-> <<"raised">>, exc |-> TRUE, db |-> db0, calls |-> c1] @@ same
        ELSE IF o.STORE = "raise"
        THEN [ret |-> <<"raised">>, exc |-> TRUE, db |-> db0, calls |-> c2] @@ same
        ELSE IF o.ALL = "raise"
        THEN [ret |-> <<"raised">>, exc |-> TRUE, db |-> r.db, calls |-> c3] @@ same
        ELSE [ret |-> <<"True">>, exc |-> FALSE, db |-> r.db, calls |-> c3,
              boxes |-> IF o.ALL = "ok" THEN r.boxes ELSE boxes]

\* controller.User.chat_button.accept with its try / except
chat_button_try(db0, um0, boxes, view, now, typed, o) ==
    LET r == chat_button_body(db0, um0, boxes, view, now, typed, o)
    IN  IF r.exc THEN [r EXCEPT !.ret = <<"True">>, !.exc = FALSE] ELSE r

----------------------------------------------------------------------------
(* The data controllers (src/source/controller/DES).  Every request to the *)
(* record store, to the forecast API or to a CSV file has an outcome: it   *)
(* works ("ok"), it is answered with an error status ("error"), or it      *)
(* raises an exception before anything is changed ("raise").  A function   *)
(* answers [ret, exc, db, calls]: exc says that an exception left it, and  *)
(* calls lists the requests it issued with how each ended.                 *)
(*                                                                         *)
(* A Python value that may be None is boxed: <<>> is None and <<v>> is v.  *)

Outcomes == {"ok", "error", "raise"}

NZCities == {"Auckland", "Wellington"}
CanadianCities == {"Toronto", "Calgary"}
Years == {"2023", "2024"}

\* Python's int(year) on the strings of AVAILABLE_YEARS
int(year) == IF year = "2023" THEN 2023 ELSE 2024

\* what the forecast API may list for a city: nothing, one entry, two
Forecasts ==
    {<<>>,
     <<[temp |-> 11, dt_txt |-> "t1"]>>,
     <<[temp |-> 12, dt_txt |-> "t1"], [temp |-> 13, dt_txt |-> "t2"]>>}

\* what Dataset/currentCanadianweather.csv may hold
CurrentCanadianFiles ==
    {<<>>,
     <<[city |-> "Toronto", temperature |-> 21, timestamp |-> "t1"]>>,
     <<[city |-> "Toronto", temperature |-> 21, timestamp |-> "t1"],
       [city |-> "Calgary", temperature |-> 31, timestamp |-> "t1"],
       [city |-> "Toronto", temperature |-> 22, timestamp |-> "t2"]>>}

\* what DataSet/WeatherData.csv may hold
WeatherDataFiles ==
    {<<>>,
     <<[city |-> "Auckland", month |-> "Feb", temperature |-> 42, year |-> 2023],
       [city |-> "Auckland", month |-> "Jan", temperature |-> 41, year |-> 2023],
       [city |-> "Wellington", month |-> "Jan", temperature |-> 51, year |-> 2024]>>,
     <<[city |-> "Auckland", month |-> "Sol", temperature |-> 40, year |-> 2023]>>}

\* what DataSet/CanadianWeatherData.csv may hold
CanadianWeatherFiles ==
    {<<>>,
     <<[city |-> "Toronto", month |-> "Feb", temperature |-> 62, year |-> 2023],
       [city |-> "Toronto", month |-> "Jan", temperature |-> 61, year |-> 2023]>>}

IsNone(boxed) == boxed = <<>>

\* Python's truth value of None or a list
Truthy(boxed) == boxed # <<>> /\ boxed[1] # <<>>

\* a request as issued, with how it ended
Request(verb, target, outcome) == [verb |-> verb, target |-> target, outcome |-> outcome]

Raised(outcome) == outcome = "raise"

\* the outcomes of the requests of one call, in the order they are issued:
\* nothing is requested after a request that raised, and reading a CSV file
\* either works or raises
InOrder(o, order) ==
    /\ \A j, k \in DOMAIN order :
           (j < k /\ o[order[j]] = "raise") => o[order[k]] = "ok"
    /\ \A k \in DOMAIN order : order[k] = "CSV" => o[order[k]] # "error"

RequestOutcomes(order) ==
    {o \in [{order[k] : k \in DOMAIN order} -> Outcomes] : InOrder(o, order)}

\* the requests each event's handler issues when none fails, in program order
FetchWeatherRequests == <<"API", "DROP", "CREATE", "STORE">>
CompareCitiesRequests == <<"DROP", "CREATE", "SELECT", "CSV", "STORE">>
FetchJsonRequests == <<"CSV", "DROP", "CREATE", "STORE", "SELECT">>
MergeDataRequests == <<"DROP", "CREATE", "ALL", "CSV", "STORE", "SELECT">>
SendRequests == <<"CREATE", "STORE", "ALL">>

FetchWeatherOutcomes == RequestOutcomes(FetchWeatherRequests)
CompareCitiesOutcomes == RequestOutcomes(CompareCitiesRequests)
FetchJsonOutcomes == RequestOutcomes(FetchJsonRequests)
MergeDataOutcomes == RequestOutcomes(MergeDataRequests)
SendOutcomes == RequestOutcomes(SendRequests)

\* DROP: the table is gone (an absent table and an empty one look alike)
jsnDropTable(rows, outcome) == IF outcome = "ok" THEN <<>> ELSE rows

\* STORE of a list of records: they are appended in order
jsnStoreRows(rows, value, outcome) == IF outcome = "ok" THEN rows \o value ELSE rows

\* a row matches  (f1 = a OR f1 = b) AND f2 = c : every field named holds
\* one of the values admitted for it
MatchesAny(row, where) == \A f \in DOMAIN where : row[f] \in where[f]

RECURSIVE Where(_, _)
Where(rows, where) ==
    IF rows = <<>> THEN <<>>
    ELSE (IF MatchesAny(Head(rows), where) THEN <<Head(rows)>> ELSE <<>>)
         \o Where(Tail(rows), where)

\* SELECT ... WHERE: the matching rows in table order, or an error status
jsnSelectRows(rows, where, outcome) ==
    IF outcome = "ok" /\ Where(rows, where) # <<>>
    THEN [JsnMsg |-> "SUCCESS.SELECT", Msg |-> Where(rows, where)]
    ELSE [JsnMsg |-> "DATA_ERROR.SELECT", Msg |-> <<>>]

\* ALL: every row, or an error status
jsnAllRows(rows, outcome) ==
    IF outcome = "ok" /\ rows # <<>>
    THEN [JsnMsg |-> "SUCCESS.ALL", Msg |-> rows]
    ELSE [JsnMsg |-> "DATA_ERROR.ALL", Msg |-> <<>>]

\* try: ... except Exception: print(...); return sentinel
Try(r, sentinel) == IF r.exc THEN [r EXCEPT !.ret = sentinel, !.exc = FALSE] ELSE r

\* record["country"] = country  for every record of a list
Tagged(records, country) ==
    [k \in 1..Len(records) |-> [country |-> country] @@ records[k]]

Column(records, field) == [k \in 1..Len(records) |-> records[k][field]]

\* (None, None, None) and (None, None)
None3 == << <<>>, <<>>, <<>> >>
None2 == << <<>>, <<>> >>

\* the answer of a function that an exception left
Raise(db0, calls) == [ret |-> <<"raised">>, exc |-> TRUE, db |-> db0, calls |-> calls]

Return(ret, db0, calls) == [ret |-> ret, exc |-> FALSE, db |-> db0, calls |-> calls]

(* fetch_weather_button.py *)

\* data["list"][:8]
ForecastEntries == 8
FirstEntries(list) ==
    SubSeq(list, 1, IF Len(list) < ForecastEntries THEN Len(list) ELSE ForecastEntries)

get_current_weather_body(city, forecast, outcome) ==
    LET calls == <<Request("GET", "forecast", outcome)>>
        list == FirstEntries(forecast)
        forecast_data == [k \in 1..Len(list) |->
                            [city |-> city, temperature |-> list[k].temp,
                             timestamp |-> list[k].dt_txt]]
    IN  IF Raised(outcome) THEN Raise(<<>>, calls)
        ELSE IF outcome # "ok" THEN Return(None3, <<>>, calls)
        ELSE Return(<< <<forecast_data>>, <<Column(list, "temp")>>,
                       <<Column(list, "dt_txt")>> >>, <<>>, calls)

get_current_weather(city, forecast, outcome) ==
    Try(get_current_weather_body(city, forecast, outcome), None3)

\* the body of accept's try; ret is keep_going and chart what update_chart
\* was given
fetch_weather_button_body(db0, values, forecast, o) ==
    LET nz_city == values.NZ_CITY
        g == get_current_weather(nz_city, forecast, o.API)
        t == "openweather"
        c1 == g.calls \o <<Request("DROP", t, o.DROP)>>
        c2 == c1 \o <<Request("CREATE", t, o.CREATE)>>
        c3 == c2 \o <<Request("STORE", t, o.STORE)>>
        db1 == [db0 EXCEPT ![t] = jsnDropTable(@, o.DROP)]
        db2 == [db1 EXCEPT ![t] = jsnStoreRows(@, g.ret[1][1], o.STORE)]
        weather_data == [city |-> nz_city, temp_history |-> g.ret[2][1],
                         time_labels |-> g.ret[3][1]]
        none == [chart |-> <<>>]
    IN  IF Truthy(g.ret[1]) /\ Truthy(g.ret[2]) /\ Truthy(g.ret[3])
        THEN IF Raised(o.DROP) THEN Raise(db0, c1) @@ none
             ELSE IF Raised(o.CREATE) THEN Raise(db1, c2) @@ none
             ELSE IF Raised(o.STORE) THEN Raise(db1, c3) @@ none
             ELSE Return(<<"True">>, db2, c3) @@ [chart |-> <<weather_data>>]
        ELSE Return(<<"True">>, db0, g.calls) @@ none

\* accept without its try / except
fetch_weather_button_accept_NoTry(db0, values, forecast, o) ==
    fetch_weather_button_body(db0, values, forecast, o)

\* controller.DES.fetch_weather_button.accept
fetch_weather_button_accept(db0, values, forecast, o) ==
    Try(fetch_weather_button_body(db0, values, forecast, o), <<"True">>)

(* current_weather_merge.py *)

get_canadian_data_body(city, file, outcome) ==
    LET calls == <<Request("READ", "currentCanadianweather.csv", outcome)>>
        city_data == Where(file, [city |-> {city}])
        records == [k \in 1..Len(city_data) |->
                       [city |-> city, country |-> "Canada",
                        temperature |-> city_data[k].temperature,
                        timestamp |-> city_data[k].timestamp]]
    IN  IF Raised(outcome) THEN Raise(<<>>, calls)
        ELSE IF city_data # <<>> THEN Return(<<records>>, <<>>, calls)
        ELSE Return(<<>>, <<>>, calls)

get_canadian_data(city, file, outcome) ==
    Try(get_canadian_data_body(city, file, outcome), <<>>)

\* the Canadian records are put first
nzca_records_CanadianFirst(nz_records, canadian_records) == canadian_records \o nz_records

\* nzca_records = nz_records + canadian_records
nzca_records(nz_records, canadian_records) == nz_records \o canadian_records

create_current_merged_dataset_body(db0, nz_city, canadian_city, file, o) ==
    LET t == "mergedcurrentdata"
        c1 == <<Request("DROP", t, o.DROP)>>
        c2 == c1 \o <<Request("CREATE", t, o.CREATE)>>
        c3 == c2 \o <<Request("SELECT", "openweather", o.SELECT)>>
        db1 == [db0 EXCEPT ![t] = jsnDropTable(@, o.DROP)]
        nz_response == jsnSelectRows(db1.openweather, [city |-> {nz_city}], o.SELECT)
        nz_records == Tagged(nz_response.Msg, "New Zealand")
        can == get_canadian_data(canadian_city, file, o.CSV)
        c4 == c3 \o can.calls
        canadian_records == can.ret[1]
        nzca == nzca_records(nz_records, canadian_records)
        c5 == c4 \o <<[verb |-> "STORE", target |-> t, outcome |-> o.STORE,
                       value |-> nzca]>>
        db2 == [db1 EXCEPT ![t] = jsnStoreRows(@, nzca, o.STORE)]
    IN  IF Raised(o.DROP) THEN Raise(db0, c1)
        ELSE IF Raised(o.CREATE) THEN Raise(db1, c2)
        ELSE IF Raised(o.SELECT) THEN Raise(db1, c3)
        ELSE IF nz_response.JsnMsg # "SUCCESS.SELECT" THEN Return(None3, db1, c3)
        ELSE IF ~Truthy(can.ret) THEN Return(None3, db1, c4)
        ELSE IF Raised(o.STORE) THEN Raise(db1, c5)
        ELSE Return(<< <<Column(nz_records, "temperature")>>,
                       <<Column(canadian_records, "temperature")>>,
                       <<Column(nz_records, "timestamp")>> >>, db2, c5)

create_current_merged_dataset(db0, nz_city, canadian_city, file, o) ==
    Try(create_current_merged_dataset_body(db0, nz_city, canadian_city, file, o), None3)

current_weather_merge_body(db0, values, file, o) ==
    LET m == create_current_merged_dataset(db0, values.NZ_CITY, values.CANADIAN_CITY,
                                           file, o)
    IN  IF m.exc THEN m
        ELSE IF Truthy(m.ret[1]) /\ Truthy(m.ret[2]) /\ Truthy(m.ret[3])
        THEN [m EXCEPT !.ret = <<[city |-> values.NZ_CITY,
                                  canadian_city |-> values.CANADIAN_CITY,
                                  temp_history |-> m.ret[1][1],
                                  canadian_temps |-> m.ret[2][1],
                                  time_labels |-> m.ret[3][1]]>>]
        ELSE [m EXCEPT !.ret = <<>>]

\* controller.DES.current_weather_merge.accept
current_weather_merge_accept(db0, values, file, o) ==
    Try(current_weather_merge_body(db0, values, file, o), <<>>)

(* sorting by month, shared by the three historical controllers *)

month_order ==
    <<"Jan", "Feb", "Mar", "Apr", "May", "Jun", "Jul", "Aug", "Sep", "Oct", "Nov", "Dec">>

\* month_order.index(x) raises ValueError for any other string
InMonthOrder(x) == \E k \in DOMAIN month_order : month_order[k] = x

month_order_index(x) == CHOOSE k \in DOMAIN month_order : month_order[k] = x

AllInMonthOrder(rows) == \A k \in DOMAIN rows : InMonthOrder(rows[k].month)

\* DataFrame.sort_values("month_order"); rows of one month keep their order
RECURSIVE InsertByMonth(_, _)
InsertByMonth(sorted, row) ==
    IF sorted = <<>> THEN <<row>>
    ELSE IF month_order_index(sorted[Len(sorted)].month) <= month_order_index(row.month)
    THEN Append(sorted, row)
    ELSE Append(InsertByMonth(SubSeq(sorted, 1, Len(sorted) - 1), row),
                sorted[Len(sorted)])

RECURSIVE SortedByMonth(_)
SortedByMonth(rows) ==
    IF rows = <<>> THEN <<>>
    ELSE InsertByMonth(SortedByMonth(SubSeq(rows, 1, Len(rows) - 1)), rows[Len(rows)])

(* get_online_json_data.py *)

upload_csv_to_jsondrop_body(db0, file, o) ==
    LET t == "weatherData"
        c1 == <<Request("READ", "WeatherData.csv", o.CSV)>>
        c2 == c1 \o <<Request("DROP", t, o.DROP)>>
        c3 == c2 \o <<Request("CREATE", t, o.CREATE)>>
        c4 == c3 \o <<Request("STORE", t, o.STORE)>>
        db1 == [db0 EXCEPT ![t] = jsnDropTable(@, o.DROP)]
        db2 == [db1 EXCEPT ![t] = jsnStoreRows(@, file, o.STORE)]
    IN  IF Raised(o.CSV) THEN Raise(db0, c1)
        ELSE IF Raised(o.DROP) THEN Raise(db0, c2)
        ELSE IF Raised(o.CREATE) THEN Raise(db1, c3)
        ELSE IF Raised(o.STORE) THEN Raise(db1, c4)
        ELSE Return(TRUE, db2, c4)

upload_csv_to_jsondrop(db0, file, o) ==
    Try(upload_csv_to_jsondrop_body(db0, file, o), FALSE)

get_city_year_data_body(db0, city, year, outcome) ==
    LET calls == <<Request("SELECT", "weatherData", outcome)>>
        response == jsnSelectRows(db0.weatherData,
                                  [city |-> {city}, year |-> {int(year)}], outcome)
        data == response.Msg
    IN  IF Raised(outcome) THEN Raise(db0, calls)
        ELSE IF response.JsnMsg = "SUCCESS.SELECT"
        THEN IF AllInMonthOrder(data)
             THEN Return(<<Column(SortedByMonth(data), "temperature")>>, db0, calls)
             ELSE Raise(db0, calls)
        ELSE Return(<<>>, db0, calls)

get_city_year_data(db0, city, year, outcome) ==
    Try(get_city_year_data_body(db0, city, year, outcome), <<>>)

get_online_json_data_body(db0, values, file, o) ==
    LET up == upload_csv_to_jsondrop(db0, file, o)
        json_data0 == get_city_year_data(up.db, values.NZ_CITY, values.YEAR, o.SELECT)
        calls == up.calls \o json_data0.calls
    IN  IF up.exc THEN up
        ELSE IF ~up.ret THEN Return(<<>>, up.db, up.calls)
        ELSE IF json_data0.exc THEN Raise(up.db, calls)
        ELSE IF Truthy(json_data0.ret) THEN Return(json_data0.ret, up.db, calls)
        ELSE Return(<<>>, up.db, calls)

\* controller.DES.get_online_json_data.accept
get_online_json_data_accept(db0, values, file, o) ==
    Try(get_online_json_data_body(db0, values, file, o), <<>>)

(* merged_data.py *)

create_merged_dataset_body(db0, file, o) ==
    LET t == "mergedWeatherData"
        c1 == <<Request("DROP", t, o.DROP)>>
        c2 == c1 \o <<Request("CREATE", t, o.CREATE)>>
        c3 == c2 \o <<Request("ALL", "weatherData", o.ALL)>>
        c4 == c3 \o <<Request("READ", "CanadianWeatherData.csv", o.CSV)>>
        db1 == [db0 EXCEPT ![t] = jsnDropTable(@, o.DROP)]
        nz_data == jsnAllRows(db1.weatherData, o.ALL)
        nz_records == Tagged(nz_data.Msg, "New Zealand")
        canadian_records == Tagged(file, "Canada")
        all_records == nz_records \o canadian_records
        c5 == c4 \o <<[verb |-> "STORE", target |-> t, outcome |-> o.STORE,
                       value |-> all_records]>>
        db2 == [db1 EXCEPT ![t] = jsnStoreRows(@, all_records, o.STORE)]
    IN  IF Raised(o.DROP) THEN Raise(db0, c1)
        ELSE IF Raised(o.CREATE) THEN Raise(db1, c2)
        ELSE IF Raised(o.ALL) THEN Raise(db1, c3)
        ELSE IF nz_data.JsnMsg # "SUCCESS.ALL" THEN Return(FALSE, db1, c3)
        ELSE IF Raised(o.CSV) THEN Raise(db1, c4)
        ELSE IF file = <<>> THEN Return(FALSE, db1, c4)
        ELSE IF Raised(o.STORE) THEN Raise(db1, c5)
        ELSE Return(TRUE, db2, c5)

create_merged_dataset(db0, file, o) ==
    Try(create_merged_dataset_body(db0, file, o), FALSE)

get_comparison_data_body(db0, nz_city, canadian_city, year, outcome) ==
    LET calls == <<Request("SELECT", "mergedWeatherData", outcome)>>
        response == jsnSelectRows(db0.mergedWeatherData,
                                  [city |-> {nz_city, canadian_city},
                                   year |-> {int(year)}], outcome)
        df == SortedByMonth(response.Msg)
    IN  IF Raised(outcome) THEN Raise(db0, calls)
        ELSE IF response.JsnMsg = "SUCCESS.SELECT"
        THEN IF AllInMonthOrder(response.Msg)
             THEN Return(<< <<Column(Where(df, [city |-> {nz_city}]), "temperature")>>,
                            <<Column(Where(df, [city |-> {canadian_city}]),
                                     "temperature")>> >>, db0, calls)
             ELSE Raise(db0, calls)
        ELSE Return(None2, db0, calls)

get_comparison_data(db0, nz_city, canadian_city, year, outcome) ==
    Try(get_comparison_data_body(db0, nz_city, canadian_city, year, outcome), None2)

merged_data_body(db0, values, file, o) ==
    LET made == create_merged_dataset(db0, file, o)
        cmp == get_comparison_data(made.db, values.NZ_CITY, values.CANADIAN_CITY,
                                   values.YEAR, o.SELECT)
        calls == made.calls \o cmp.calls
    IN  IF made.exc THEN made
        ELSE IF ~made.ret THEN Return(<<>>, made.db, made.calls)
        ELSE IF cmp.exc THEN Raise(made.db, calls)
        ELSE IF Truthy(cmp.ret[1]) /\ Truthy(cmp.ret[2])
        THEN Return(<<[nz_data |-> cmp.ret[1][1], canadian_data |-> cmp.ret[2][1]]>>,
                    made.db, calls)
        ELSE Return(<<>>, made.db, calls)

\* controller.DES.merged_data.accept
merged_data_accept(db0, values, file, o) ==
    Try(merged_data_body(db0, values, file, o), <<>>)

(* Get_local_data.py *)

get_city_data_body(city, year, exists, file, outcome) ==
    LET calls == <<Request("READ", "WeatherData.csv", outcome)>>
        filtered_data == Where(file, [city |-> {city}, year |-> {int(year)}])
    IN  IF ~exists THEN Return(<<>>, <<>>, <<>>)
        ELSE IF Raised(outcome) THEN Raise(<<>>, calls)
        ELSE IF filtered_data # <<>>
        THEN IF AllInMonthOrder(filtered_data)
             THEN Return(<<Column(SortedByMonth(filtered_data), "temperature")>>,
                         <<>>, calls)
             ELSE Raise(<<>>, calls)
        ELSE Return(<<>>, <<>>, calls)

get_city_data(city, year, exists, file, outcome) ==
    Try(get_city_data_body(city, year, exists, file, outcome), <<>>)

Get_local_data_body(values, exists, file, outcome) ==
    LET data == get_city_data(values.NZ_CITY, values.YEAR, exists, file, outcome)
    IN  IF data.exc THEN data
        ELSE IF Truthy(data.ret) THEN data
        ELSE [data EXCEPT !.ret = <<>>]

\* controller.DES.Get_local_data.accept
Get_local_data_accept(values, exists, file, outcome) ==
    Try(Get_local_data_body(values, exists, file, outcome), <<>>)

----------------------------------------------------------------------------
(* The main windows and the event loop (WeatherApp.initialize_windows,     *)
(* run and handle_window_events)                                           *)

\* the buttons of create_top_interface's layout
TopInterfaceButtons == {"Current Condition", "Historical Data", "Yearly Comparison", "Exit"}

\* the buttons every DES layout has
DESButtons == {"Prev", "Next", "Send", "Exit"}

ScreenOf(i) == CASE i = 0 -> "DES1" [] i = 1 -> "DES2" [] i = 2 -> "DES3"

IndexOfButton(button) ==
    CASE button = "Current Condition" -> 0
      [] button = "Historical Data" -> 1
      [] button = "Yearly Comparison" -> 2

InitializeWindows ==
    /\ pc = "create_windows"
    /\ top_interface' = "open"
    /\ windows' = <<"hidden", "hidden", "hidden">>
    /\ pc' = "main"
    /\ last' = Handled("initialize_windows", <<>>, <<"True">>, <<>>, <<>>, <<>>)
    /\ UNCHANGED <<db, um, clock, app_current_user, login_view, register_view,
                   current_window_index, chatbox, desVars, loopVars>>

\* the window an event can come from: the top menu, or the DES window shown
Shown(i) == i + 1 \in DOMAIN windows /\ windows[i + 1] = "shown"

\* Hide() the current window, UnHide() window i, then set_current_DES
ShowScreen(op, i) ==
    LET hidden == IF current_window_index = <<>>
                  THEN windows
                  ELSE [windows EXCEPT ![current_window_index[1] + 1] = "hidden"]
        r == set_current_DES(um, ScreenOf(i))
    IN  /\ windows' = [hidden EXCEPT ![i + 1] = "shown"]
        /\ current_window_index' = <<i>>
        /\ um' = r.um
        /\ last' = Handled(op, <<ScreenOf(i)>>, <<r.ret>>, <<>>, <<>>,
                           IF r.ret # "Set Screen" THEN <<r.ret>> ELSE <<>>)
        /\ UNCHANGED <<db, clock, pc, app_current_user, login_view, register_view,
                       top_interface, chatbox, desVars, loopVars>>

TopButton ==
    /\ pc = "main"
    /\ \E button \in TopInterfaceButtons \ {"Exit"} : ShowScreen(button, IndexOfButton(button))

Prev ==
    /\ pc = "main"
    /\ current_window_index # <<>>
    /\ Shown(current_window_index[1])
    /\ ShowScreen("Prev", (current_window_index[1] - 1) % 3)

NextScreen ==
    /\ pc = "main"
    /\ current_window_index # <<>>
    /\ Shown(current_window_index[1])
    /\ ShowScreen("Next", (current_window_index[1] + 1) % 3)

Send ==
    /\ pc = "main"
    /\ \E i \in 0..2, typed \in Messages, reply \in Replies :
       /\ Shown(i)
       /\ clock < MaxChat
       /\ LET r == chat_button_accept(db, um, chatbox, i, clock, typed, reply)
          IN  /\ db' = r.db
              /\ chatbox' = r.boxes
              /\ clock' = IF r.calls = <<>> THEN clock ELSE clock + 1
              /\ last' = Handled("Send", <<typed>>, <<>>, r.calls, r.reads, <<>>)
    /\ UNCHANGED <<um, pc, app_current_user, login_view, register_view,
                   top_interface, windows, current_window_index, desVars, loopVars>>

\* Exit or WIN_CLOSED of any window (run() tests  event in (WIN_CLOSED,
\* "Exit")  and treats both alike): it closes everything and returns
ExitEvent ==
    /\ pc = "main"
    /\ last' = Handled("Exit", <<>>, <<>>, <<>>, <<>>, <<>>)
    /\ windows' = [k \in DOMAIN windows |-> "closed"]
    /\ top_interface' = "closed"
    /\ pc' = "done"
    /\ UNCHANGED <<db, um, clock, app_current_user, login_view, register_view,
                   current_window_index, chatbox, desVars, loopVars>>

\* the Logout branch of handle_window_events, followed by run()'s break back
\* to handle_login; the event needs a Logout button on the top menu
LogoutEvent ==
    /\ pc = "main"
    /\ "Logout" \in TopInterfaceButtons
    /\ \E reply \in Replies :
       LET r == logout(db, um, reply)
       IN  /\ db' = r.db
           /\ um' = r.um
           /\ last' = Handled("Logout", <<>>, <<"Logout">>, r.calls, <<>>, <<>>)
    /\ windows' = [k \in DOMAIN windows |-> "closed"]
    /\ top_interface' = "closed"
    /\ login_view' = [login_view EXCEPT
                         !.controls = AppendControls(@, LoginControls),
                         !.window = "open"]
    /\ pc' = "login_window"
    /\ app_current_user' = None
    /\ UNCHANGED <<clock, register_view, current_window_index, chatbox, desVars,
                   loopVars>>

Next ==
    \/ LoginClick
    \/ RegisterWindowClick
    \/ LoginExit
    \/ HandleLoginResult
    \/ RegisterClick
    \/ RegisterExit
    \/ HandleRegisterResult
    \/ InitializeWindows
    \/ TopButton
    \/ Prev
    \/ NextScreen
    \/ Send
    \/ ExitEvent

Spec == Init /\ [][Next]_vars

----------------------------------------------------------------------------
(* The data events of the DES windows, each handled from a state that      *)
(* earlier events may have left: amy registered and logged in, a screen    *)
(* was chosen on the top menu, and the tables hold what earlier fetches    *)
(* stored in them.                                                         *)

\* the rows get_current_weather makes of a forecast
ForecastRows(city, forecast) ==
    [k \in 1..Len(forecast) |->
        [city |-> city, temperature |-> forecast[k].temp, timestamp |-> forecast[k].dt_txt]]

\* what earlier Get Current Weather clicks may have left in openweather
OpenweatherTables ==
    LET one == ForecastRows("Auckland", <<[temp |-> 11, dt_txt |-> "t1"]>>)
        two == ForecastRows("Auckland", <<[temp |-> 12, dt_txt |-> "t1"],
                                          [temp |-> 13, dt_txt |-> "t2"]>>)
        other == ForecastRows("Wellington", <<[temp |-> 14, dt_txt |-> "t1"]>>)
    IN  {<<>>, one, <<two[1]>> \o other \o <<two[2]>>}

\* what an earlier Compare Cities click may have left in mergedcurrentdata
MergedCurrentTables ==
    {<<>>,
     <<[city |-> "Auckland", country |-> "New Zealand", temperature |-> 10,
        timestamp |-> "t0"],
       [city |-> "Toronto", country |-> "Canada", temperature |-> 20,
        timestamp |-> "t0"]>>}

\* what an earlier Get JSON Data click may have left in weatherData
WeatherDataTables ==
    {<<>>,
     <<[city |-> "Auckland", month |-> "Feb", temperature |-> 42, year |-> 2023],
       [city |-> "Auckland", month |-> "Jan", temperature |-> 41, year |-> 2023]>>}

\* what an earlier Create Merged Data click may have left in mergedWeatherData
MergedWeatherTables ==
    {<<>>,
     <<[city |-> "Auckland", country |-> "New Zealand", month |-> "Mar",
        temperature |-> 43, year |-> 2023]>>}

ButtonOfIndex(i) ==
    CASE i = 0 -> "Current Condition"
      [] i = 1 -> "Historical Data"
      [] i = 2 -> "Yearly Comparison"

InitDES ==
    /\ \E ow \in OpenweatherTables, mc \in MergedCurrentTables,
          wd \in WeatherDataTables, mw \in MergedWeatherTables :
          db = [tblUser |-> {UserRecord("amy", "pw1", "Logged In")},
                tblChatV2 |-> <<>>,
                tblChat_DES1 |-> <<>>, tblChat_DES2 |-> <<>>, tblChat_DES3 |-> <<>>,
                openweather |-> ow, mergedcurrentdata |-> mc,
                weatherData |-> wd, mergedWeatherData |-> mw]
    /\ \E i \in 0..2 :
          /\ um = [current_user |-> "amy", current_pass |-> "pw1",
                   current_status |-> "Logged In", current_screen |-> ScreenOf(i)]
          /\ windows = [k \in 1..3 |-> IF k = i + 1 THEN "shown" ELSE "hidden"]
          /\ current_window_index = <<i>>
          /\ last = Handled(ButtonOfIndex(i), <<ScreenOf(i)>>, <<"Set Screen">>,
                            <<>>, <<>>, <<>>)
    /\ clock = 0
    /\ pc = "main"
    /\ app_current_user = "amy"
    /\ login_view = [result |-> <<"amy", "pw1">>,
                     controls |-> LoginControls \o LoginControls, window |-> "closed"]
    /\ register_view = [result |-> <<"Exit">>, controls |-> RegisterControls,
                        window |-> "closed"]
    /\ top_interface = "open"
    /\ chatbox = [i \in 1..3 |-> <<>>]
    /\ json_data = <<>>
    /\ chart = [i \in 1..3 |-> <<>>]
    /\ events = <<>>
    /\ handling = <<>>

\* the event is the first one read after a screen was chosen on the top menu
FirstEvent == pc = "main" /\ last.op \in TopInterfaceButtons

\* the except clause of handle_window_events: popup_error and carry on
ErrorPopup(r) == IF r.exc THEN <<"Error handling event">> ELSE <<>>

\* what a data event leaves in last: the controller's answer, the requests
\* it issued, and whether an exception left the controller
HandledCall(op, args, r, popups) ==
    Handled(op, args, r.ret, r.calls, <<>>, popups) @@ [exc |-> r.exc]

\* an event the window's handler does not act on
Ignored(op, args) == Handled(op, args, <<>>, <<>>, <<>>, <<>>) @@ [exc |-> FALSE]

DrawnOn(i, boxed) == IF boxed = <<>> THEN chart ELSE [chart EXCEPT ![i + 1] = boxed]

\* "-FETCH-WEATHER-" on the Current Condition window
FetchWeather ==
    /\ FirstEvent
    /\ Shown(0)
    /\ \E city \in NZCities, forecast \in Forecasts,
          o \in FetchWeatherOutcomes :
       LET values == [NZ_CITY |-> city]
           r == fetch_weather_button_accept(db, values, forecast, o)
       IN  IF current_window_index = <<0>>
           THEN /\ db' = r.db
                /\ chart' = DrawnOn(0, r.chart)
                /\ last' = HandledCall("-FETCH-WEATHER-", <<values>>, r, ErrorPopup(r))
           ELSE /\ last' = Ignored("-FETCH-WEATHER-", <<values>>)
                /\ UNCHANGED <<db, chart>>
    /\ UNCHANGED <<um, clock, pc, app_current_user, login_view, register_view,
                   top_interface, windows, current_window_index, chatbox, json_data,
                   loopVars>>

\* current_condition.handle_compare_cities: its try / except prints
handle_compare_cities(db0, values, file, o) ==
    LET m == current_weather_merge_accept(db0, values, file, o)
    IN  m @@ [chart |-> IF m.exc THEN <<>> ELSE m.ret]

\* "-MERGE-CURRENT-" on the Current Condition window
CompareCities ==
    /\ FirstEvent
    /\ Shown(0)
    /\ \E nz_city \in NZCities, canadian_city \in CanadianCities,
          file \in CurrentCanadianFiles,
          o \in CompareCitiesOutcomes :
       LET values == [NZ_CITY |-> nz_city, CANADIAN_CITY |-> canadian_city]
           r == handle_compare_cities(db, values, file, o)
       IN  IF current_window_index = <<0>>
           THEN /\ db' = r.db
                /\ chart' = DrawnOn(0, r.chart)
                /\ last' = HandledCall("-MERGE-CURRENT-", <<values, file>>, r, <<>>)
           ELSE /\ last' = Ignored("-MERGE-CURRENT-", <<values, file>>)
                /\ UNCHANGED <<db, chart>>
    /\ UNCHANGED <<um, clock, pc, app_current_user, login_view, register_view,
                   top_interface, windows, current_window_index, chatbox, json_data,
                   loopVars>>

\* handle_json_fetch of historical_data and of yearly_comparison: the chart
\* shows the result and the result is returned, or None
handle_json_fetch(db0, values, file, o) ==
    LET r == get_online_json_data_accept(db0, values, file, o)
    IN  r @@ [chart |-> IF r.exc \/ r.ret = <<>> THEN <<>>
                        ELSE <<[nz_data |-> r.ret[1], nz_city |-> values.NZ_CITY]>>,
              result |-> IF r.exc THEN <<>> ELSE r.ret]

\* "-FETCH-JSON-" on the Historical Data or the Yearly Comparison window
FetchJson ==
    /\ FirstEvent
    /\ \E i \in {1, 2}, city \in NZCities, year \in Years, file \in WeatherDataFiles,
          o \in FetchJsonOutcomes :
       LET values == [NZ_CITY |-> city, YEAR |-> year]
           r == handle_json_fetch(db, values, file, o)
       IN  /\ Shown(i)
           /\ IF current_window_index = <<i>>
              THEN /\ db' = r.db
                   /\ chart' = DrawnOn(i, r.chart)
                   /\ json_data' = r.result
                   /\ last' = HandledCall("-FETCH-JSON-", <<values, file>>, r, <<>>)
              ELSE /\ last' = Ignored("-FETCH-JSON-", <<values, file>>)
                   /\ UNCHANGED <<db, chart, json_data>>
    /\ UNCHANGED <<um, clock, pc, app_current_user, login_view, register_view,
                   top_interface, windows, current_window_index, chatbox, loopVars>>

\* handle_merge_event of historical_data and of yearly_comparison
handle_merge_event(db0, values, file, o) ==
    LET r == merged_data_accept(db0, values, file, o)
    IN  r @@ [chart |-> IF r.exc \/ r.ret = <<>> THEN <<>>
                        ELSE <<[nz_data |-> r.ret[1].nz_data,
                                canadian_data |-> r.ret[1].canadian_data,
                                nz_city |-> values.NZ_CITY,
                                canadian_city |-> values.CANADIAN_CITY]>>]

\* "-MERGE-DATA-" on the Historical Data or the Yearly Comparison window
MergeData ==
    /\ FirstEvent
    /\ \E i \in {1, 2}, nz_city \in NZCities, canadian_city \in CanadianCities,
          year \in Years, file \in CanadianWeatherFiles,
          o \in MergeDataOutcomes :
       LET values == [NZ_CITY |-> nz_city, CANADIAN_CITY |-> canadian_city,
                      YEAR |-> year]
           r == handle_merge_event(db, values, file, o)
       IN  /\ Shown(i)
           /\ IF current_window_index = <<i>>
              THEN /\ db' = r.db
                   /\ chart' = DrawnOn(i, r.chart)
                   /\ last' = HandledCall("-MERGE-DATA-", <<values, file>>, r, <<>>)
              ELSE /\ last' = Ignored("-MERGE-DATA-", <<values, file>>)
                   /\ UNCHANGED <<db, chart>>
    /\ UNCHANGED <<um, clock, pc, app_current_user, login_view, register_view,
                   top_interface, windows, current_window_index, chatbox, json_data,
                   loopVars>>

\* Get_local_data.accept("-LOCAL-DATA-", ...): no layout has the button and
\* no branch of handle_window_events calls it, so it is called directly
LocalData ==
    /\ FirstEvent
    /\ \E city \in NZCities, year \in Years, exists \in BOOLEAN,
          file \in WeatherDataFiles, outcome \in {"ok", "raise"} :
       LET values == [NZ_CITY |-> city, YEAR |-> year]
           r == Get_local_data_accept(values, exists, file, outcome)
       IN  last' = HandledCall("-LOCAL-DATA-", <<values, file>>, r, <<>>)
    /\ UNCHANGED <<db, um, clock, appVars>>

\* "Send" on the DES window shown, with requests that may fail
SendRequest ==
    /\ FirstEvent
    /\ \E i \in 0..2, typed \in {<<"h">>, <<" ">>},
          o \in SendOutcomes :
       LET r == chat_button_try(db, um, chatbox, i, clock, typed, o)
       IN  /\ Shown(i)
           /\ db' = r.db
           /\ chatbox' = r.boxes
           /\ clock' = clock + 1
           /\ last' = HandledCall("Send", <<typed>>, r, ErrorPopup(r))
    /\ UNCHANGED <<um, pc, app_current_user, login_view, register_view,
                   top_interface, windows, current_window_index, desVars, loopVars>>

NextDES ==
    \/ FetchWeather
    \/ CompareCities
    \/ FetchJson
    \/ MergeData
    \/ LocalData
    \/ SendRequest

SpecDES == InitDES /\ [][NextDES]_vars

----------------------------------------------------------------------------
(* The inner loop of WeatherApp.run, step by step: read_all_windows        *)
(* returns the oldest waiting click, handle_window_events runs the         *)
(* handler, the handler issues its requests one after the other and waits  *)
(* for each answer, and run() calls read_all_windows again.  The toolkit   *)
(* keeps the clicks made in the meantime.  What a handler changes is in    *)
(* the actions above; here pc is the place of the program's one thread:    *)
(* "main" in read_all_windows, "handle_window_events" in a handler,        *)
(* "requests_get" in a request.                                            *)

\* the events of the main windows that handle_window_events dispatches on
LoopEvents ==
    {"Prev", "Next", "Send", "-FETCH-WEATHER-", "-MERGE-CURRENT-", "-FETCH-JSON-",
     "-MERGE-DATA-", "Exit"}

RequestsOf(event) ==
    CASE event = "Send" -> SendRequests
      [] event = "-FETCH-WEATHER-" -> FetchWeatherRequests
      [] event = "-MERGE-CURRENT-" -> CompareCitiesRequests
      [] event = "-FETCH-JSON-" -> FetchJsonRequests
      [] event = "-MERGE-DATA-" -> MergeDataRequests
      [] OTHER -> <<>>

\* the handler is started on another thread and run() reads on
AfterDispatch_Thread == "main"

\* run() calls handle_window_events and is inside it until it returns
AfterDispatch == "handle_window_events"

InitLoop ==
    /\ InitDES
    /\ db.openweather = <<>> /\ db.mergedcurrentdata = <<>>
    /\ db.weatherData = <<>> /\ db.mergedWeatherData = <<>>

loopFrame == <<db, um, app_current_user, login_view, register_view, current_window_index,
               chatbox, desVars, last>>

\* the user clicks a button of a main window, whatever the program is doing
Click ==
    /\ pc \in {"main", "handle_window_events", "requests_get"}
    /\ clock < MaxClicks
    /\ \E event \in LoopEvents : events' = Append(events, event)
    /\ clock' = clock + 1
    /\ UNCHANGED <<pc, handling, top_interface, windows, loopFrame>>

\* read_all_windows returns; Exit ends run(), any other event is dispatched
ReadEvent ==
    /\ pc = "main"
    /\ events # <<>>
    /\ events' = Tail(events)
    /\ IF Head(events) = "Exit"
       THEN /\ windows' = [k \in DOMAIN windows |-> "closed"]
            /\ top_interface' = "closed"
            /\ pc' = "done"
            /\ UNCHANGED handling
       ELSE /\ handling' = <<[event |-> Head(events), requests |-> RequestsOf(Head(events))]>>
            /\ pc' = AfterDispatch
            /\ UNCHANGED <<windows, top_interface>>
    /\ UNCHANGED <<clock, loopFrame>>

\* the handler calls requests.get
IssueRequest ==
    /\ pc = "handle_window_events"
    /\ handling # <<>>
    /\ handling[1].requests # <<>>
    /\ pc' = "requests_get"
    /\ UNCHANGED <<events, handling, clock, top_interface, windows, loopFrame>>

\* the answers after which a handler issues no further request: an
\* exception (its except clause returns), an error to a read, or no rows
EndsHandler(request, outcome, rows) ==
    \/ outcome = "raise"
    \/ request \in {"API", "SELECT", "ALL"} /\ outcome = "error"
    \/ request \in {"API", "SELECT", "ALL", "CSV"} /\ ~rows

\* requests.get returns or raises
ReceiveReply ==
    /\ pc = "requests_get"
    /\ \E outcome \in Outcomes, rows \in BOOLEAN :
          handling' = <<[handling[1] EXCEPT !.requests =
                            IF EndsHandler(Head(handling[1].requests), outcome, rows)
                            THEN <<>> ELSE Tail(@)]>>
    /\ pc' = "handle_window_events"
    /\ UNCHANGED <<events, clock, top_interface, windows, loopFrame>>

\* handle_window_events returns and run() loops
ReturnToLoop ==
    /\ pc = "handle_window_events"
    /\ handling # <<>>
    /\ handling[1].requests = <<>>
    /\ handling' = <<>>
    /\ pc' = "main"
    /\ UNCHANGED <<events, clock, top_interface, windows, loopFrame>>

NextLoop ==
    \/ Click
    \/ ReadEvent
    \/ IssueRequest
    \/ ReceiveReply
    \/ ReturnToLoop

SpecLoop == InitLoop /\ [][NextLoop]_vars

----------------------------------------------------------------------------
(* Properties *)

Registered(tbl, user_id) == \E r \in tbl : r.PersonID = user_id

HoldsCredentials(tbl, user_id, password) ==
    \E r \in tbl : r.PersonID = user_id /\ r.Password = password

\* tblUser after the store accepted value: value takes the place of any
\* record with the same PersonID
Upserted(tbl, value) == {r \in tbl : r.PersonID # value.PersonID} \cup {value}

Accepted(call) == call.JsnMsg = "SUCCESS.STORE"

ChatTables == {"tblChat_DES1", "tblChat_DES2", "tblChat_DES3"}

\* the table that belongs to the DES window with index i
ChatTableOfWindow(i) ==
    CASE i = 0 -> "tblChat_DES1" [] i = 1 -> "tblChat_DES2" [] i = 2 -> "tblChat_DES3"

\* the DES window the user is looking at
ShownWindow == CHOOSE i \in 0..2 : Shown(i)

C2_Register ==
    [][last'.op = "register" =>
        LET user_id == last'.args[1]
            password == last'.args[2]
            rec == UserRecord(user_id, password, "Registered")
        IN  IF ~Registered(db.tblUser, user_id)
            THEN /\ last'.ret = <<"Registration Success">>
                 /\ Len(last'.calls) = 1
                 /\ last'.calls[1].STORE = "tblUser"
                 /\ last'.calls[1].VALUE = rec
                 /\ db'.tblUser = IF Accepted(last'.calls[1])
                                  THEN db.tblUser \cup {rec} ELSE db.tblUser
            ELSE /\ last'.ret = <<"User Already Exists">>
                 /\ last'.calls = <<>>
                 /\ db' = db]_vars

\* a second registration of a stored username, with another password, was refused
C2_Witness ==
    /\ last.op = "register"
    /\ last.ret = <<"User Already Exists">>
    /\ last.args = <<"amy", "pw2">>
    /\ \E r \in db.tblUser : r.PersonID = "amy" /\ r.Password = "pw1"

\* C3: login(user_id, password) succeeds exactly when tblUser holds a record
\* with that PersonID and Password.  On success it returns 'Login Success',
\* sets current_status = 'Logged In', current_user and current_pass, and
\* issues a STORE of Status = 'Logged In' for that user; otherwise it
\* returns 'Login Failed', sets current_status = 'Logged Out' and
\* current_user = None, and issues no STORE.  After a register(u, p) whose
\* record was stored, login(u, q) succeeds exactly when q = p.
C3_Login ==
    [][last'.op = "login" =>
        LET user_id == last'.args[1]
            password == last'.args[2]
            rec == UserRecord(user_id, password, "Logged In")
        IN  /\ IF HoldsCredentials(db.tblUser, user_id, password)
               THEN /\ last'.ret = <<"Login Success">>
                    /\ um' = [um EXCEPT !.current_status = "Logged In",
                                        !.current_user = user_id,
                                        !.current_pass = password]
                    /\ Len(last'.calls) = 1
                    /\ last'.calls[1].STORE = "tblUser"
                    /\ last'.calls[1].VALUE = rec
                    /\ db'.tblUser = IF Accepted(last'.calls[1])
                                     THEN Upserted(db.tblUser, rec) ELSE db.tblUser
               ELSE /\ last'.ret = <<"Login Failed">>
                    /\ um' = [um EXCEPT !.current_status = "Logged Out",
                                        !.current_user = None]
                    /\ last'.calls = <<>>
                    /\ db' = db
            /\ (/\ last.op = "register"
                /\ last.ret = <<"Registration Success">>
                /\ Accepted(last.calls[1])
                /\ last.args[1] = user_id)
               => (last'.ret = <<"Login Success">> <=> password = last.args[2])]_vars

\* a login that succeeded for a user who is now recorded as logged in
C3_Witness ==
    /\ last.op = "login"
    /\ last.ret = <<"Login Success">>
    /\ um.current_status = "Logged In"
    /\ um.current_user = "amy"
    /\ UserRecord("amy", um.current_pass, "Logged In") \in db.tblUser

\* C4: logout() of a logged-in user issues a STORE of Status = 'Logged Out'
\* for the current user; when the store reports no error current_status
\* becomes 'Logged Out' and it returns 'Logged Out'; when the store reports
\* an error it returns the error status and current_status stays
\* 'Logged In'.  When nobody is logged in it returns "Must be 'Logged In'
\* to 'LogOut'" and issues no store call.
C4_Logout ==
    [][last'.op = "logout" =>
        LET rec == UserRecord(um.current_user, um.current_pass, "Logged Out")
        IN  IF um.current_status = "Logged In"
            THEN /\ Len(last'.calls) = 1
                 /\ last'.calls[1].STORE = "tblUser"
                 /\ last'.calls[1].VALUE = rec
                 /\ IF Accepted(last'.calls[1])
                    THEN /\ um' = [um EXCEPT !.current_status = "Logged Out"]
                         /\ last'.ret = <<"Logged Out">>
                         /\ db'.tblUser = Upserted(db.tblUser, rec)
                    ELSE /\ um' = um
                         /\ last'.ret = <<last'.calls[1].JsnMsg>>
                         /\ last'.ret # <<"Logged Out">>
                         /\ db' = db
            ELSE /\ last'.ret = <<"Must be 'Logged In' to 'LogOut'">>
                 /\ last'.calls = <<>>
                 /\ um' = um
                 /\ db' = db]_vars

\* a logout the store answered with an error: the user is still logged in
C4_Witness ==
    /\ last.op = "logout"
    /\ last.calls # <<>>
    /\ ~Accepted(last.calls[1])
    /\ last.ret = <<"ERROR.STORE">>
    /\ um.current_status = "Logged In"

\* C5: in the main event loop the user can log out, and logging out calls
\* UserManager.logout, closes the three DES windows and the top menu, and
\* brings the login window back instead of ending the application.
C5_LogoutReturnsToLogin == (pc = "main") => ENABLED LogoutEvent

\* C6: in the login window a Login click with credentials that login
\* accepts sets current_screen to 'DES1', sets the LoginView result to
\* (username, password) and ends accept_input, which returns that tuple; a
\* Login click with rejected credentials shows the failure message and
\* keeps the window open with no tuple result.
C6_LoginWindow ==
    [][(pc = "login_window" /\ last'.op = "Login") =>
        LET user_name == last'.args[1]
            password == last'.args[2]
        IN  IF HoldsCredentials(db.tblUser, user_name, password)
            THEN /\ um'.current_screen = "DES1"
                 /\ um'.current_status = "Logged In"
                 /\ login_view'.result = <<user_name, password>>
                 /\ login_view'.window = "closed"
                 /\ pc' = "login_result"
                 /\ last'.ret = <<"return", user_name, password>>
            ELSE /\ last'.popups # <<>>
                 /\ \A k \in DOMAIN last'.popups : last'.popups[k] = "Login Failed"
                 /\ login_view'.window = "open"
                 /\ pc' = "login_window"
                 /\ ~isTuple(login_view'.result)
                 /\ last'.ret = <<>>
                 /\ um'.current_screen = um.current_screen]_vars

\* accept_input has just returned the tuple of an accepted Login click
C6_Witness ==
    /\ pc = "login_result"
    /\ last.op = "Login"
    /\ last.ret = <<"return", "amy", "pw1">>
    /\ login_view.result = <<"amy", "pw1">>
    /\ um.current_screen = "DES1"

\* C7: in the register window a Register click with a username that is not
\* in tblUser stores (username, password) as the RegisterView result and
\* closes the window, so that accept_input returns that tuple; a Register
\* click with a taken username shows a popup and the window stays open.
C7_RegisterWindow ==
    [][(pc = "register_window" /\ last'.op = "Register") =>
        LET user_name == last'.args[1]
            password == last'.args[2]
        IN  IF ~Registered(db.tblUser, user_name)
            THEN /\ register_view'.result = <<user_name, password>>
                 /\ register_view'.window = "closed"
                 /\ pc' = "register_result"
                 /\ last'.ret = <<"return", user_name, password>>
            ELSE /\ last'.popups # <<>>
                 /\ register_view'.window = "open"
                 /\ pc' = "register_window"]_vars

\* C8: the Register button of the login window sets the LoginView result to
\* 'Register' and closes the login window without a call of login;
\* handle_login then opens the register window, and when the register
\* window has ended it shows the login window again instead of returning.
C8_RegisterWindowButton ==
    [][/\ (pc = "login_window" /\ last'.op = "Register") =>
            /\ login_view'.result = <<"Register">>
            /\ login_view'.window = "closed"
            /\ pc' = "login_result"
            /\ last'.ret = <<"return", "Register">>
            /\ last'.calls = <<>> /\ last'.popups = <<>>
            /\ um' = um /\ db' = db
       /\ (pc = "login_result" /\ last.op = "Register") =>
            /\ pc' = "register_window"
            /\ register_view'.window = "open"
            /\ login_view'.window = "closed"
       /\ (pc = "register_result") =>
            /\ pc' = "login_window"
            /\ login_view'.window = "open"
            /\ register_view'.window = "closed"]_vars

\* the login window is open again after the register window has ended
C8_Witness ==
    /\ pc = "login_window"
    /\ last.op = "handle_register"
    /\ login_view.result = <<"Register">>
    /\ login_view.window = "open"
    /\ register_view.window = "closed"

\* C9: set_current_DES(screen) with a user logged in sets current_screen to
\* screen and returns 'Set Screen'; with nobody logged in it leaves
\* current_screen unchanged and returns 'Log in to set the current screen'.
C9_SetCurrentDES ==
    [][last'.op = "set_current_DES" =>
        IF um.current_status = "Logged In"
        THEN /\ um' = [um EXCEPT !.current_screen = last'.args[1]]
             /\ last'.ret = <<"Set Screen">>
        ELSE /\ um' = um
             /\ last'.ret = <<"Log in to set the current screen">>]_vars

\* C10: chat(message) with a user logged in and a current screen set issues
\* a STORE of {PersonID = current user, DESNumber = current screen,
\* Chat = message, Time} to tblChatV2 and, the store accepting it, appends
\* the record and returns 'Chat sent'; it returns 'Chat sent' in no other
\* case.  Not logged in it returns 'You must be logged in to chat', with no
\* screen set the 'Chat not sent...' message, and in both cases nothing is
\* stored.
C10_Chat ==
    [][last'.op = "chat" =>
        LET message == last'.args[1]
            rec == ChatRecord(um.current_user, um.current_screen, message, clock)
        IN  /\ IF um.current_status # "Logged In"
               THEN /\ last'.ret = <<"You must be logged in to chat">>
                    /\ last'.calls = <<>>
                    /\ db' = db
               ELSE IF um.current_screen = None
               THEN /\ last'.ret = <<"Chat not sent. A current screen must be set before sending chat - just testing">>
                    /\ last'.calls = <<>>
                    /\ db' = db
               ELSE /\ Len(last'.calls) = 1
                    /\ last'.calls[1].STORE = "tblChatV2"
                    /\ last'.calls[1].VALUE = rec
                    /\ IF Accepted(last'.calls[1])
                       THEN /\ last'.ret = <<"Chat sent">>
                            /\ db'.tblChatV2 = Append(db.tblChatV2, rec)
                       ELSE /\ last'.ret = <<last'.calls[1].JsnMsg>>
                            /\ db' = db
            /\ last'.ret = <<"Chat sent">> =>
                   /\ um.current_status = "Logged In"
                   /\ um.current_screen \in Screens
            /\ db'.tblUser = db.tblUser
            /\ um' = um]_vars

\* two chats were stored for amy, sent from two different screens
C10_Witness ==
    /\ last.op = "chat"
    /\ last.ret = <<"Chat sent">>
    /\ Len(db.tblChatV2) = 2
    /\ db.tblChatV2[1].DESNumber # db.tblChatV2[2].DESNumber
    /\ db.tblChatV2[2].PersonID = "amy"

\* the entry points of the data controllers, by the event each accepts
DataEntryPoints ==
    {"-FETCH-WEATHER-", "-MERGE-CURRENT-", "-FETCH-JSON-", "-MERGE-DATA-",
     "-LOCAL-DATA-", "Send"}

\* what an entry point returns when it has nothing: keep_going for the
\* keep-going controllers, None for the others
Sentinel(op) == IF op \in {"-FETCH-WEATHER-", "Send"} THEN <<"True">> ELSE <<>>

\* a request raised, or a read of the store or of the forecast API was
\* answered with an error
Failed(calls) ==
    \E k \in DOMAIN calls :
        \/ calls[k].outcome = "raise"
        \/ calls[k].verb \in {"GET", "SELECT", "ALL"} /\ calls[k].outcome = "error"

EventsRead == clock - Len(events)

MergedRecords(openweather, file, values) ==
    LET nz == Where(openweather, [city |-> {values.NZ_CITY}])
        ca == Where(file, [city |-> {values.CANADIAN_CITY}])
    IN  [k \in 1..Len(nz) |-> [country |-> "New Zealand"] @@ nz[k]]
        \o [k \in 1..Len(ca) |->
               [city |-> values.CANADIAN_CITY, country |-> "Canada",
                temperature |-> ca[k].temperature, timestamp |-> ca[k].timestamp]]

\* the request of the given kind that the last event issued got this answer
Answered(verb, outcomes) ==
    \E k \in DOMAIN last'.calls :
        last'.calls[k].verb = verb /\ last'.calls[k].outcome \in outcomes

\* what the claim says of a Compare Cities step whose requests meet `met`;
\* accept hands on the three lists create_current_merged_dataset returned
\* when none of them is empty, and None otherwise
MergeContract(met) ==
    (last'.op = "-MERGE-CURRENT-" /\ last'.calls # <<>>) =>
        LET values == last'.args[1]
            file == last'.args[2]
            nz == Where(db.openweather, [city |-> {values.NZ_CITY}])
            ca == Where(file, [city |-> {values.CANADIAN_CITY}])
            merged == MergedRecords(db.openweather, file, values)
            kept == IF Answered("DROP", {"ok"}) THEN <<>> ELSE db.mergedcurrentdata
        IN  (Answered("SELECT", {"ok"}) /\ nz # <<>> /\ ca # <<>> /\ met) =>
               /\ \E k \in DOMAIN last'.calls :
                     /\ last'.calls[k].verb = "STORE"
                     /\ last'.calls[k].target = "mergedcurrentdata"
                     /\ last'.calls[k].value = merged
               /\ Answered("STORE", {"ok"}) => db'.mergedcurrentdata = kept \o merged
               /\ last'.ret # <<>>
               /\ last'.ret[1].temp_history = [k \in 1..Len(nz) |-> nz[k].temperature]
               /\ last'.ret[1].time_labels = [k \in 1..Len(nz) |-> nz[k].timestamp]
               /\ last'.ret[1].canadian_temps = [k \in 1..Len(ca) |-> ca[k].temperature]
               /\ Len(last'.ret[1].temp_history) = Len(last'.ret[1].time_labels)

\* C13 as stated: whenever the SELECT on openweather succeeds and the CSV,
\* once read, has rows of the Canadian city, the merged records are stored
\* in mergedcurrentdata and the three lists are returned.
C13_AsStated == [][MergeContract(Answered("READ", {"ok"}))]_vars

\* C13: when the SELECT on openweather for the NZ city succeeds, the CSV is
\* read and has rows of the Canadian city, and the STORE request returns,
\* create_current_merged_dataset sends to mergedcurrentdata the NZ records
\* tagged New Zealand followed by the Canadian records tagged Canada, and
\* returns the NZ temperatures, the Canadian temperatures and the NZ
\* timestamps, each in record order, the first and the last of equal length.
C13_Merge ==
    [][MergeContract(Answered("READ", {"ok"}) /\ Answered("STORE", {"ok", "error"}))]_vars

\* Auckland's two rows, with Wellington's between them in the table, and
\* Toronto's two rows, with Calgary's between them in the file, were merged
C13_Witness ==
    /\ last.op = "-MERGE-CURRENT-"
    /\ last.args[1] = [NZ_CITY |-> "Auckland", CANADIAN_CITY |-> "Toronto"]
    /\ last.ret # <<>>
    /\ last.ret[1].temp_history = <<12, 13>>
    /\ last.ret[1].canadian_temps = <<21, 22>>
    /\ last.ret[1].time_labels = <<"t1", "t2">>
    /\ Len(db.mergedcurrentdata) = 4
    /\ [k \in 1..4 |-> db.mergedcurrentdata[k].country]
          = <<"New Zealand", "New Zealand", "Canada", "Canada">>

====
